---- MODULE Spec2Model ----
(***************************************************************************)
(* ADK agent server: configuration provider, agent abstraction, agent      *)
(* registry and the FastAPI request server built on them.                  *)
(*                                                                         *)
(* Python strings are TLA+ strings.  Python's None is the string None      *)
(* below, which no modelled input equals.  A Python dict is a sequence of  *)
(* <<key, value>> pairs in insertion order.  Structured logging and the    *)
(* print calls are taken to succeed and to leave no state behind.          *)
(***************************************************************************)
EXTENDS Integers, Sequences, FiniteSets, TLC

None == "<None>"

\* ---------------------------------------------------------------------
\* Bounds of the model
\* ---------------------------------------------------------------------

\* Largest decimal literal the integer parser is asked to recognise.
MaxIntLiteral == 12

\* ---------------------------------------------------------------------
\* Python dict helpers (insertion ordered)
\* ---------------------------------------------------------------------

Keys(d) == [i \in 1..Len(d) |-> d[i][1]]

KeySet(d) == {d[i][1] : i \in 1..Len(d)}

HasKey(d, k) == k \in KeySet(d)

Get(d, k) == d[CHOOSE i \in 1..Len(d) : d[i][1] = k][2]

\* d[k] = v : replaces in place when k is present, appends otherwise
DictSet(d, k, v) ==
    IF HasKey(d, k)
    THEN [i \in 1..Len(d) |-> IF d[i][1] = k THEN <<k, v>> ELSE d[i]]
    ELSE Append(d, <<k, v>>)

\* ---------------------------------------------------------------------
\* adk.config
\* ---------------------------------------------------------------------

Fields ==
    {"google_cloud_project", "google_application_credentials",
     "vertex_ai_location", "dialogflow_project_id",
     "dialogflow_language_code", "openai_api_key", "agent_name",
     "agent_description", "host", "port", "debug", "log_level",
     "log_format", "storage_bucket", "environment"}

DefaultPort == 8000

Defaults ==
    [google_cloud_project |-> "",
     google_application_credentials |-> None,
     vertex_ai_location |-> "us-central1",
     dialogflow_project_id |-> None,
     dialogflow_language_code |-> "en-US",
     openai_api_key |-> None,
     agent_name |-> "playground-agent",
     agent_description |-> "A playground agent for experimentation",
     host |-> "localhost",
     port |-> DefaultPort,
     debug |-> TRUE,
     log_level |-> "INFO",
     log_format |-> "json",
     storage_bucket |-> None,
     environment |-> "development"]

\* getattr(field_info, 'env', None) or field_name.upper()
EnvVar ==
    [google_cloud_project |-> "GOOGLE_CLOUD_PROJECT",
     google_application_credentials |-> "GOOGLE_APPLICATION_CREDENTIALS",
     vertex_ai_location |-> "VERTEX_AI_LOCATION",
     dialogflow_project_id |-> "DIALOGFLOW_PROJECT_ID",
     dialogflow_language_code |-> "DIALOGFLOW_LANGUAGE_CODE",
     openai_api_key |-> "OPENAI_API_KEY",
     agent_name |-> "AGENT_NAME",
     agent_description |-> "AGENT_DESCRIPTION",
     host |-> "HOST",
     port |-> "PORT",
     debug |-> "DEBUG",
     log_level |-> "LOG_LEVEL",
     log_format |-> "LOG_FORMAT",
     storage_bucket |-> "STORAGE_BUCKET",
     environment |-> "ENVIRONMENT"]

IntFields == {"port"}

BoolFields == {"debug"}

\* int(...) of an environment string: a decimal literal or a failure
ParseInt(s) ==
    IF \E n \in 0..MaxIntLiteral : ToString(n) = s
    THEN [ok |-> TRUE, val |-> CHOOSE n \in 0..MaxIntLiteral : ToString(n) = s]
    ELSE [ok |-> FALSE, val |-> 0]

\* bool(...) of an environment string as the validator reads it
ParseBool(s) ==
    IF s \in {"1", "true", "True", "t", "yes", "y", "on"}
    THEN [ok |-> TRUE, val |-> TRUE]
    ELSE IF s \in {"0", "false", "False", "f", "no", "n", "off"}
    THEN [ok |-> TRUE, val |-> FALSE]
    ELSE [ok |-> FALSE, val |-> FALSE]

\* the field validator applied to a string taken from the environment
Coerce(f, s) ==
    IF f \in IntFields THEN ParseInt(s)
    ELSE IF f \in BoolFields THEN ParseBool(s)
    ELSE [ok |-> TRUE, val |-> s]

\* load_dotenv(): variables of the .env file are added to os.environ,
\* those already set are kept
LoadDotenv(env, file) ==
    [v \in DOMAIN env \cup DOMAIN file |->
        IF v \in DOMAIN env THEN env[v] ELSE file[v]]

\* env_values of Config.__init__
EnvValues(env) ==
    [f \in {g \in Fields : EnvVar[g] \in DOMAIN env} |-> env[EnvVar[f]]]

\* Variant of SourceOf: the merge is written {**kwargs, **env_values}
SourceOfEnvFirst(f, env_values, kwargs) ==
    IF f \in DOMAIN env_values THEN "env"
    ELSE IF f \in DOMAIN kwargs THEN "kwargs"
    ELSE "default"

\* which source decides field f: final_values = {**env_values, **kwargs}
SourceOf(f, env_values, kwargs) ==
    IF f \in DOMAIN kwargs THEN "kwargs"
    ELSE IF f \in DOMAIN env_values THEN "env"
    ELSE "default"

\* Config(**kwargs) against an os.environ that load_dotenv has already
\* filled.  kwargs holds values of the fields' own types; environment
\* values are strings and pass through the field's validator.
Config(env, kwargs) ==
    LET env_values == EnvValues(env)
        src == [f \in Fields |-> SourceOf(f, env_values, kwargs)]
        bad == {f \in Fields : src[f] = "env" /\ ~Coerce(f, env_values[f]).ok}
    IN  IF bad # {}
        THEN [ok |-> FALSE, error |-> "validation error for Config"]
        ELSE [ok |-> TRUE,
              values |->
                 [f \in Fields |->
                     IF src[f] = "kwargs" THEN kwargs[f]
                     ELSE IF src[f] = "env" THEN Coerce(f, env_values[f]).val
                     ELSE Defaults[f]]]

\* get_config()
GetConfig(env) == Config(env, <<>>)

\* validate_google_cloud_setup(); the credentials file, when named, exists
\* or not as the file system has it (credsExist)
ValidateGoogleCloudSetup(cfg, credsExist) ==
    IF cfg.values["google_cloud_project"] = "" THEN FALSE
    ELSE IF cfg.values["google_application_credentials"] \notin {None, ""}
         THEN credsExist
         ELSE TRUE

\* ---------------------------------------------------------------------
\* adk.agents
\* ---------------------------------------------------------------------

\* Python truthiness of an optional string (None and "" are falsy)
Falsy(s) == s = None \/ s = ""

\* Variant of BaseAgentInit: the fallback is taken only for None
\* ("name if name is not None else ...")
BaseAgentInitNotNone(cls, name, description, cfg) ==
    IF ~cfg.ok
    THEN [ok |-> FALSE, error |-> cfg.error]
    ELSE [ok |-> TRUE,
          agent |->
             [cls |-> cls,
              name |-> IF name = None THEN cfg.values["agent_name"] ELSE name,
              description |->
                 IF description = None THEN cfg.values["agent_description"]
                 ELSE description,
              project |-> cfg.values["google_cloud_project"],
              location |-> cfg.values["vertex_ai_location"],
              model_name |-> IF cls = "VertexAIAgent" THEN "text-bison" ELSE None]]

\* BaseAgent.__init__(name, description) with the result of get_config():
\* raises when get_config() raises
BaseAgentInit(cls, name, description, cfg) ==
    IF ~cfg.ok
    THEN [ok |-> FALSE, error |-> cfg.error]
    ELSE [ok |-> TRUE,
          agent |->
             [cls |-> cls,
              name |-> IF Falsy(name) THEN cfg.values["agent_name"] ELSE name,
              description |->
                 IF Falsy(description) THEN cfg.values["agent_description"]
                 ELSE description,
              project |-> cfg.values["google_cloud_project"],
              location |-> cfg.values["vertex_ai_location"],
              model_name |-> IF cls = "VertexAIAgent" THEN "text-bison" ELSE None]]

\* BaseAgent.health_check()
HealthCheck(agent) ==
    [status |-> "healthy", name |-> agent.name, description |-> agent.description]

\* the agent object after health_check(): the method assigns nothing
AfterHealthCheck(agent) == agent

\* EchoAgent.initialize(): only logs
EchoInitialize(agent) == [ok |-> TRUE]

\* str() of a Python dict whose keys and values are strings
RECURSIVE ReprItems(_)
ReprItems(items) ==
    IF Len(items) = 0 THEN ""
    ELSE LET one == "'" \o items[1][1] \o "': '" \o items[1][2] \o "'"
         IN  IF Len(items) = 1 THEN one
             ELSE one \o ", " \o ReprItems(Tail(items))

ReprDict(items) == "{" \o ReprItems(items) \o "}"

\* an optional context mapping: present = FALSE is None
NoContext == [present |-> FALSE, items |-> <<>>]

Truthy(context) == context.present /\ Len(context.items) > 0

\* Variant of EchoProcessMessage: tests "context is not None" instead of
\* the truth value of the mapping
EchoProcessMessageNotNone(message, context) ==
    LET response == "Echo: " \o message
    IN  [ok |-> TRUE,
         value |-> IF context.present
                   THEN response \o " (Context: " \o ReprDict(context.items) \o ")"
                   ELSE response]

\* EchoAgent.process_message(message, context)
EchoProcessMessage(message, context) ==
    LET response == "Echo: " \o message
    IN  [ok |-> TRUE,
         value |-> IF Truthy(context)
                   THEN response \o " (Context: " \o ReprDict(context.items) \o ")"
                   ELSE response]

ImportErrorText == "No module named 'google'"

\* VertexAIAgent.initialize(): sdk = the aiplatform package can be
\* imported, initOk = aiplatform.init(project, location) returns
VertexInitialize(agent, sdk, initOk) ==
    IF ~sdk THEN [ok |-> FALSE, error |-> ImportErrorText]
    ELSE IF ~initOk THEN [ok |-> FALSE, error |-> "aiplatform.init failed"]
    ELSE [ok |-> TRUE]

\* Variant of VertexProcessMessage: the except clause re-raises
VertexProcessMessageRaises(message, context, sdk, remote) ==
    IF ~sdk
    THEN [ok |-> FALSE, error |-> ImportErrorText]
    ELSE IF remote.ok
    THEN [ok |-> TRUE, value |-> remote.text]
    ELSE [ok |-> FALSE, error |-> remote.cause]

\* VertexAIAgent.process_message(message, context): remote is what the
\* text-generation call does, [ok |-> TRUE, text] or [ok |-> FALSE, cause]
VertexProcessMessage(message, context, sdk, remote) ==
    IF ~sdk
    THEN [ok |-> TRUE, value |-> "Error processing message: " \o ImportErrorText]
    ELSE IF remote.ok
    THEN [ok |-> TRUE, value |-> remote.text]
    ELSE [ok |-> TRUE, value |-> "Error processing message: " \o remote.cause]

\* AVAILABLE_AGENTS, in insertion order
AVAILABLE_AGENTS == <<<<"echo", "EchoAgent">>, <<"vertex", "VertexAIAgent">>>>

\* agent.initialize() by class
Initialize(agent, sdk, initOk) ==
    IF agent.cls = "EchoAgent" THEN EchoInitialize(agent)
    ELSE VertexInitialize(agent, sdk, initOk)

\* agent.process_message(message, context) by class
ProcessMessage(agent, message, context, sdk, remote) ==
    IF agent.cls = "EchoAgent" THEN EchoProcessMessage(message, context)
    ELSE VertexProcessMessage(message, context, sdk, remote)

\* ---------------------------------------------------------------------
\* examples/server.py
\* ---------------------------------------------------------------------

\* str() of a Python list of strings
RECURSIVE ReprStrs(_)
ReprStrs(xs) ==
    IF Len(xs) = 0 THEN ""
    ELSE IF Len(xs) = 1 THEN "'" \o xs[1] \o "'"
    ELSE "'" \o xs[1] \o "', " \o ReprStrs(Tail(xs))

ReprList(xs) == "[" \o ReprStrs(xs) \o "]"

\* Variant of StartupIteration: the agent is stored before initialize is awaited
StartupIterationStoreFirst(ags, agent_type, agent_class, cfg, sdkOk, initOk) ==
    LET made == BaseAgentInit(agent_class, "server-" \o agent_type, None, cfg)
    IN  IF ~made.ok
        THEN [agents |-> ags, outcome |-> "construct_failed"]
        ELSE [agents |-> DictSet(ags, agent_type, made.agent),
              outcome |-> IF Initialize(made.agent, sdkOk, initOk).ok
                          THEN "initialized" ELSE "initialize_failed"]

\* One iteration of the loop of startup_event for (agent_type, agent_class):
\* construct, initialize, store; any exception skips the store.
\* Yields the agents dict afterwards and what happened.
StartupIteration(ags, agent_type, agent_class, cfg, sdkOk, initOk) ==
    LET made == BaseAgentInit(agent_class, "server-" \o agent_type, None, cfg)
    IN  IF ~made.ok
        THEN [agents |-> ags, outcome |-> "construct_failed"]
        ELSE IF ~Initialize(made.agent, sdkOk, initOk).ok
        THEN [agents |-> ags, outcome |-> "initialize_failed"]
        ELSE [agents |-> DictSet(ags, agent_type, made.agent),
              outcome |-> "initialized"]

\* root()
RootHandler ==
    [status |-> 200,
     body |-> [message |-> "ADK Agent Server", version |-> "0.1.0",
               status |-> "running"],
     invoked |-> <<>>]

\* the try/except around one agent's health_check in health_check()
AgentStatus(agent) ==
    LET health == [ok |-> TRUE, value |-> HealthCheck(agent)]
    IN  IF health.ok THEN health.value
        ELSE [status |-> "error", error |-> health.error]

\* validate_environment(): raises when get_config() raises
ValidateEnvironment(cfg, credsExist, deps) ==
    IF ~cfg.ok
    THEN [ok |-> FALSE, error |-> cfg.error]
    ELSE [ok |-> TRUE,
          value |-> [google_cloud |-> ValidateGoogleCloudSetup(cfg, credsExist),
                     dependencies |-> deps]]

\* health_check(): validate_environment() is called outside any try, so
\* its exception leaves the handler and the framework answers 500
HealthHandler(ags, cfg, credsExist, deps) ==
    LET env_status == ValidateEnvironment(cfg, credsExist, deps)
    IN  IF ~env_status.ok
        THEN [status |-> 500, body |-> [detail |-> "Internal Server Error"],
              invoked |-> <<>>]
        ELSE [status |-> 200,
              body |-> [status |-> "healthy",
                        environment |-> env_status.value,
                        agents |-> [i \in 1..Len(ags) |->
                                       <<ags[i][1], AgentStatus(ags[i][2])>>]],
              invoked |-> <<>>]

\* Variant of ChatHandler: the availability check sits inside the try, so
\* its HTTPException is caught and rewritten by the except clause
ChatHandlerCheckInTry(ags, request, sdkOk, remote) ==
    IF ~HasKey(ags, request.agent_type)
    THEN [status |-> 500,
          body |-> [detail |-> "Agent error: 400: Agent type '"
                               \o request.agent_type
                               \o "' not available. Available types: "
                               \o ReprList(Keys(ags))],
          invoked |-> <<>>]
    ELSE LET agent == Get(ags, request.agent_type)
             response == ProcessMessage(agent, request.message,
                                        request.context, sdkOk, remote)
         IN  [status |-> 200,
              body |-> [response |-> response.value,
                        agent_name |-> agent.name,
                        agent_type |-> request.agent_type],
              invoked |-> <<request.agent_type>>]

\* Variant of ChatHandler: the agent is taken from the head of the dict
\* instead of being looked up by the requested type
ChatHandlerFirstAgent(ags, request, sdkOk, remote) ==
    IF ~HasKey(ags, request.agent_type)
    THEN [status |-> 400,
          body |-> [detail |-> "Agent type '" \o request.agent_type
                               \o "' not available. Available types: "
                               \o ReprList(Keys(ags))],
          invoked |-> <<>>]
    ELSE LET agent == ags[1][2]
             response == ProcessMessage(agent, request.message,
                                        request.context, sdkOk, remote)
         IN  [status |-> 200,
              body |-> [response |-> response.value,
                        agent_name |-> agent.name,
                        agent_type |-> request.agent_type],
              invoked |-> <<ags[1][1]>>]

\* chat(request)
ChatHandler(ags, request, sdkOk, remote) ==
    IF ~HasKey(ags, request.agent_type)
    THEN [status |-> 400,
          body |-> [detail |-> "Agent type '" \o request.agent_type
                               \o "' not available. Available types: "
                               \o ReprList(Keys(ags))],
          invoked |-> <<>>]
    ELSE LET agent == Get(ags, request.agent_type)
             response == ProcessMessage(agent, request.message,
                                        request.context, sdkOk, remote)
         IN  IF response.ok
             THEN [status |-> 200,
                   body |-> [response |-> response.value,
                             agent_name |-> agent.name,
                             agent_type |-> request.agent_type],
                   invoked |-> <<request.agent_type>>]
             ELSE [status |-> 500,
                   body |-> [detail |-> "Agent error: " \o response.error],
                   invoked |-> <<request.agent_type>>]

\* Variant of ListAgentsHandler: initialized_agents is read from the registry
ListAgentsHandlerRegistry(ags) ==
    [status |-> 200,
     body |-> [available_agents |-> Keys(AVAILABLE_AGENTS),
               initialized_agents |-> Keys(AVAILABLE_AGENTS),
               agent_details |->
                  [i \in 1..Len(ags) |->
                      <<ags[i][1], [name |-> ags[i][2].name,
                                    description |-> ags[i][2].description]>>]],
     invoked |-> <<>>]

\* list_agents()
ListAgentsHandler(ags) ==
    [status |-> 200,
     body |-> [available_agents |-> Keys(AVAILABLE_AGENTS),
               initialized_agents |-> Keys(ags),
               agent_details |->
                  [i \in 1..Len(ags) |->
                      <<ags[i][1], [name |-> ags[i][2].name,
                                    description |-> ags[i][2].description]>>]],
     invoked |-> <<>>]

\* ---------------------------------------------------------------------
\* Inputs
\* ---------------------------------------------------------------------

MaxContextItems == 2

AllItems == <<<<"user", "test_user">>, <<"session", "12345">>, <<"lang", "en">>>>

Min(a, b) == IF a < b THEN a ELSE b

Contexts ==
    {NoContext} \cup
    {[present |-> TRUE, items |-> SubSeq(AllItems, 1, n)] :
        n \in 0..Min(MaxContextItems, Len(AllItems))}

Messages == {"hi", ""}

AgentTypes == {"echo", "vertex", "nope"}

ChatRequests ==
    [message : Messages, context : Contexts, agent_type : AgentTypes]

RemoteOutcomes ==
    {[ok |-> TRUE, text |-> "pong", cause |-> None],
     [ok |-> FALSE, text |-> None, cause |-> "quota exceeded"]}

\* the optional packages are all installed or all missing
OptionalDeps == {[d \in {"dialogflow", "openai", "langchain"} |-> b] : b \in BOOLEAN}

\* a partial assignment of the named variables: each absent or one of its values
Assignments(choices) ==
    UNION {[vs -> UNION {choices[v] : v \in vs}] : vs \in SUBSET DOMAIN choices}

WellFormed(choices) ==
    {a \in Assignments(choices) : \A v \in DOMAIN a : a[v] \in choices[v]}

\* os.environ when the process starts
EnvironChoices ==
    WellFormed([PORT |-> {"9", "abc"}, GOOGLE_CLOUD_PROJECT |-> {"p"}])

\* contents the .env file may have
DotenvChoices ==
    WellFormed([PORT |-> {"abc"}, AGENT_DESCRIPTION |-> {"custom"}])

\* number of chat requests the event loop handles at the same time
MaxInflight == 2

Slots == 1..MaxInflight

NoneInFlight == [s \in Slots |-> [pc |-> "idle"]]

NoRequest == [message |-> "", context |-> NoContext, agent_type |-> ""]

VARIABLES
    phase,     \* "Uninitialized", "Starting" or "Ready"
    idx,       \* position of startup_event's loop in AVAILABLE_AGENTS
    agents,    \* the module-level agents dict of the server
    environ,   \* os.environ
    dotenv,    \* the .env file
    sdk,       \* google.cloud.aiplatform can be imported
    attempts,  \* what startup did for each registry tag, in order
    last,      \* the last request served and its response
    inflight   \* the chat requests being handled concurrently, by slot

vars == <<phase, idx, agents, environ, dotenv, sdk, attempts, last, inflight>>

Init ==
    /\ phase = "Uninitialized"
    /\ idx = 0
    /\ agents = <<>>
    /\ environ \in EnvironChoices
    /\ dotenv \in DotenvChoices
    /\ sdk \in BOOLEAN
    /\ attempts = <<>>
    /\ last = [op |-> "none", request |-> NoRequest, status |-> 0,
               body |-> <<>>, invoked |-> <<>>]
    /\ inflight = NoneInFlight

\* the on_event("startup") hook begins: setup_logging()
StartupBegin ==
    /\ phase = "Uninitialized"
    /\ phase' = "Starting"
    /\ idx' = 1
    /\ UNCHANGED <<agents, environ, dotenv, sdk, attempts, last, inflight>>

\* Variant of StartupStep: no except clause, so a failing agent ends
\* startup_event with the exception and the application does not start
StartupStepNoExcept ==
    /\ phase = "Starting"
    /\ idx <= Len(AVAILABLE_AGENTS)
    /\ \E initOk \in BOOLEAN :
          LET env1 == LoadDotenv(environ, dotenv)
              it == StartupIteration(agents, AVAILABLE_AGENTS[idx][1],
                                     AVAILABLE_AGENTS[idx][2],
                                     GetConfig(env1), sdk, initOk)
          IN  /\ agents' = it.agents
              /\ attempts' = Append(attempts,
                                    <<AVAILABLE_AGENTS[idx][1], it.outcome>>)
              /\ environ' = env1
              /\ phase' = IF it.outcome = "initialized" THEN phase ELSE "Failed"
    /\ idx' = idx + 1
    /\ UNCHANGED <<dotenv, sdk, last, inflight>>

\* one iteration of the for loop of startup_event
StartupStep ==
    /\ phase = "Starting"
    /\ idx <= Len(AVAILABLE_AGENTS)
    /\ \E initOk \in BOOLEAN :
          LET env1 == LoadDotenv(environ, dotenv)
              it == StartupIteration(agents, AVAILABLE_AGENTS[idx][1],
                                     AVAILABLE_AGENTS[idx][2],
                                     GetConfig(env1), sdk, initOk)
          IN  /\ agents' = it.agents
              /\ attempts' = Append(attempts,
                                    <<AVAILABLE_AGENTS[idx][1], it.outcome>>)
              /\ environ' = env1
    /\ idx' = idx + 1
    /\ UNCHANGED <<phase, dotenv, sdk, last, inflight>>

\* the loop is exhausted: startup_event returns and requests are served
StartupEnd ==
    /\ phase = "Starting"
    /\ idx > Len(AVAILABLE_AGENTS)
    /\ phase' = "Ready"
    /\ UNCHANGED <<idx, agents, environ, dotenv, sdk, attempts, last, inflight>>

\* GET /
Root ==
    /\ phase = "Ready"
    /\ last' = [op |-> "root", request |-> NoRequest] @@ RootHandler
    /\ UNCHANGED <<phase, idx, agents, environ, dotenv, sdk, attempts, inflight>>

\* GET /health
Health ==
    /\ phase = "Ready"
    /\ \E credsExist \in BOOLEAN, optional \in OptionalDeps :
          LET env1 == LoadDotenv(environ, dotenv)
              deps == [d \in DOMAIN optional \cup {"vertex_ai"} |->
                          IF d = "vertex_ai" THEN sdk ELSE optional[d]]
          IN  /\ last' = [op |-> "health", request |-> NoRequest]
                           @@ HealthHandler(agents, GetConfig(env1),
                                            credsExist, deps)
              /\ environ' = env1
    /\ UNCHANGED <<phase, idx, agents, dotenv, sdk, attempts, inflight>>

\* Variant of Chat: the handler is served without waiting for the end of
\* startup_event (the agents are built in a background task)
ChatNoStartupWait ==
    /\ \E request \in ChatRequests, remote \in RemoteOutcomes :
          last' = [op |-> "chat", request |-> request, remote |-> remote]
                    @@ ChatHandler(agents, request, sdk, remote)
    /\ UNCHANGED <<phase, idx, agents, environ, dotenv, sdk, attempts, inflight>>

\* Variant of Chat: a registered type that is missing at run time is
\* constructed and stored by the handler
ChatLazyInit ==
    /\ phase = "Ready"
    /\ \E request \in ChatRequests, remote \in RemoteOutcomes :
          LET made == BaseAgentInit(Get(AVAILABLE_AGENTS, request.agent_type),
                                    "server-" \o request.agent_type, None,
                                    GetConfig(environ))
          IN  /\ last' = [op |-> "chat", request |-> request, remote |-> remote]
                           @@ ChatHandler(agents, request, sdk, remote)
              /\ agents' =
                    IF /\ HasKey(AVAILABLE_AGENTS, request.agent_type)
                       /\ ~HasKey(agents, request.agent_type)
                       /\ made.ok
                    THEN DictSet(agents, request.agent_type, made.agent)
                    ELSE agents
    /\ UNCHANGED <<phase, idx, environ, dotenv, sdk, attempts, inflight>>

\* POST /chat
Chat ==
    /\ phase = "Ready"
    /\ \E request \in ChatRequests, remote \in RemoteOutcomes :
          last' = [op |-> "chat", request |-> request, remote |-> remote]
                    @@ ChatHandler(agents, request, sdk, remote)
    /\ UNCHANGED <<phase, idx, agents, environ, dotenv, sdk, attempts, inflight>>

\* GET /agents
ListAgents ==
    /\ phase = "Ready"
    /\ last' = [op |-> "agents", request |-> NoRequest]
                 @@ ListAgentsHandler(agents)
    /\ UNCHANGED <<phase, idx, agents, environ, dotenv, sdk, attempts, inflight>>

\* somebody edits the .env file
EditDotenv ==
    /\ dotenv' \in DotenvChoices \ {dotenv}
    /\ UNCHANGED <<phase, idx, agents, environ, sdk, attempts, last, inflight>>

Next ==
    \/ StartupBegin
    \/ StartupStep
    \/ StartupEnd
    \/ Root
    \/ Health
    \/ Chat
    \/ ListAgents
    \/ EditDotenv

Spec == Init /\ [][Next]_vars

\* startup_event runs to its end once the framework has called it
FairSpec == Spec /\ WF_vars(StartupBegin) /\ WF_vars(StartupStep) /\ WF_vars(StartupEnd)

\* ---------------------------------------------------------------------
\* The library used directly, as tests/test_basic.py and the example
\* scripts use it
\* ---------------------------------------------------------------------

\* os.environ when a script or test starts
LibEnvironChoices ==
    WellFormed([PORT |-> {"9", "abc"}, DEBUG |-> {"false", "maybe"},
                GOOGLE_CLOUD_PROJECT |-> {"p"}])

\* keyword arguments given to Config(...)
KwargsChoices ==
    {a @@ b @@ c :
        a \in WellFormed([google_cloud_project |-> {"test-project"},
                          host |-> {"localhost"}]),
        b \in {<<>>} \cup {[port |-> n] : n \in {DefaultPort, 9}},
        c \in {<<>>, [debug |-> FALSE]}}

InitLib ==
    /\ phase = "Uninitialized"
    /\ idx = 0
    /\ agents = <<>>
    /\ environ \in LibEnvironChoices
    /\ dotenv \in DotenvChoices
    /\ sdk \in BOOLEAN
    /\ attempts = <<>>
    /\ last = [op |-> "none"]
    /\ inflight = NoneInFlight

\* config = Config(**kwargs)
LibConfig ==
    /\ \E kwargs \in KwargsChoices :
          LET env1 == LoadDotenv(environ, dotenv)
          IN  /\ environ' = env1
              /\ last' = [op |-> "Config", kwargs |-> kwargs, env |-> env1,
                          result |-> Config(env1, kwargs)]
    /\ UNCHANGED <<phase, idx, agents, dotenv, sdk, attempts, inflight>>

\* await EchoAgent(...).process_message(message, context)
LibEcho ==
    /\ \E message \in Messages, context \in Contexts :
          last' = [op |-> "EchoAgent.process_message", message |-> message,
                   context |-> context,
                   result |-> EchoProcessMessage(message, context)]
    /\ UNCHANGED <<phase, idx, agents, environ, dotenv, sdk, attempts, inflight>>

\* await VertexAIAgent(...).process_message(message, context)
LibVertex ==
    /\ \E message \in Messages, context \in Contexts, remote \in RemoteOutcomes :
          last' = [op |-> "VertexAIAgent.process_message", message |-> message,
                   context |-> context, remote |-> remote,
                   result |-> VertexProcessMessage(message, context, sdk, remote)]
    /\ UNCHANGED <<phase, idx, agents, environ, dotenv, sdk, attempts, inflight>>

\* name and description arguments of an agent constructor
NameArgs == {None, "", "test-agent"}

DescriptionArgs == {None, "", "Test echo agent"}

\* agent = EchoAgent(name, description); await agent.initialize();
\* health = await agent.health_check()
LibHealth ==
    /\ \E name \in NameArgs, description \in DescriptionArgs :
          LET env1 == LoadDotenv(environ, dotenv)
              cfg == GetConfig(env1)
              made == BaseAgentInit("EchoAgent", name, description, cfg)
          IN  /\ environ' = env1
              /\ last' =
                    IF made.ok /\ EchoInitialize(made.agent).ok
                    THEN [op |-> "EchoAgent.health_check", name |-> name,
                          description |-> description, constructed |-> TRUE,
                          configured |-> cfg.values, agent |-> made.agent,
                          after |-> AfterHealthCheck(made.agent),
                          result |-> HealthCheck(made.agent)]
                    ELSE [op |-> "EchoAgent.health_check", name |-> name,
                          description |-> description, constructed |-> FALSE]
    /\ UNCHANGED <<phase, idx, agents, dotenv, sdk, attempts, inflight>>

NextLib ==
    \/ LibConfig
    \/ LibEcho
    \/ LibVertex
    \/ LibHealth
    \/ EditDotenv

SpecLib == InitLib /\ [][NextLib]_vars

\* ---------------------------------------------------------------------
\* Concurrent chat requests: the chat coroutine of each request runs up
\* to await agent.process_message(...) and resumes after it, and the
\* event loop may run other requests in between
\* ---------------------------------------------------------------------

ConcRequests ==
    [message : Messages,
     context : {NoContext, [present |-> TRUE, items |-> SubSeq(AllItems, 1, 1)]},
     agent_type : AgentTypes]

\* Variant of AwaitedResult: the agent keeps the message of a call in a
\* field of the instance, which a later call on the same instance
\* overwrites
AwaitedResultSharedField(fl, slot, ags, sdkOk, remote) ==
    LET mine == fl[slot]
        others == {o \in DOMAIN fl \ {slot} :
                      /\ fl[o].pc \in {"awaiting", "resumed"}
                      /\ fl[o].request.agent_type = mine.request.agent_type}
        message == IF others = {} THEN mine.request.message
                   ELSE fl[CHOOSE o \in others : TRUE].request.message
    IN  ProcessMessage(Get(ags, mine.request.agent_type), message,
                       mine.request.context, sdkOk, remote)

\* what await agent.process_message(request.message, request.context)
\* yields for the request in slot
AwaitedResult(fl, slot, ags, sdkOk, remote) ==
    ProcessMessage(Get(ags, fl[slot].request.agent_type),
                   fl[slot].request.message, fl[slot].request.context,
                   sdkOk, remote)

InitConc ==
    /\ phase = "Uninitialized"
    /\ idx = 0
    /\ agents = <<>>
    /\ environ \in {e \in EnvironChoices : "PORT" \notin DOMAIN e}
    /\ dotenv \in {f \in DotenvChoices : DOMAIN f = {}}
    /\ sdk \in BOOLEAN
    /\ attempts = <<>>
    /\ last = [op |-> "none", request |-> NoRequest, status |-> 0,
               body |-> <<>>, invoked |-> <<>>]
    /\ inflight = NoneInFlight

\* a POST /chat arrives and its coroutine is created
ChatReceive ==
    /\ phase = "Ready"
    /\ \E slot \in Slots, request \in ConcRequests :
          /\ inflight[slot].pc = "idle"
          /\ \A o \in Slots : o < slot => inflight[o].pc # "idle"
          /\ inflight' = [inflight EXCEPT ![slot] =
                             [pc |-> "received", request |-> request]]
    /\ UNCHANGED <<phase, idx, agents, environ, dotenv, sdk, attempts, last>>

\* chat runs to its first await: the availability check, then the lookup
ChatLookup ==
    /\ \E slot \in Slots :
          /\ inflight[slot].pc = "received"
          /\ inflight' = [inflight EXCEPT ![slot] =
                IF ~HasKey(agents, inflight[slot].request.agent_type)
                THEN [pc |-> "done", request |-> inflight[slot].request,
                      status |-> 400,
                      body |-> [detail |->
                                   "Agent type '"
                                   \o inflight[slot].request.agent_type
                                   \o "' not available. Available types: "
                                   \o ReprList(Keys(agents))]]
                ELSE [pc |-> "awaiting", request |-> inflight[slot].request]]
    /\ UNCHANGED <<phase, idx, agents, environ, dotenv, sdk, attempts, last>>

\* the awaited process_message call of one request completes
ChatAwait ==
    /\ \E slot \in Slots, remote \in RemoteOutcomes :
          /\ inflight[slot].pc = "awaiting"
          /\ inflight' = [inflight EXCEPT ![slot] =
                [pc |-> "resumed", request |-> inflight[slot].request,
                 remote |-> remote,
                 result |-> AwaitedResult(inflight, slot, agents, sdk, remote)]]
    /\ UNCHANGED <<phase, idx, agents, environ, dotenv, sdk, attempts, last>>

\* chat resumes: MessageResponse(...) or the except clause
ChatReturn ==
    /\ \E slot \in Slots :
          /\ inflight[slot].pc = "resumed"
          /\ inflight' = [inflight EXCEPT ![slot] =
                LET fl == inflight[slot]
                IN  IF fl.result.ok
                    THEN [pc |-> "done", request |-> fl.request,
                          remote |-> fl.remote, status |-> 200,
                          body |-> [response |-> fl.result.value,
                                    agent_name |->
                                       Get(agents, fl.request.agent_type).name,
                                    agent_type |-> fl.request.agent_type]]
                    ELSE [pc |-> "done", request |-> fl.request,
                          remote |-> fl.remote, status |-> 500,
                          body |-> [detail |-> "Agent error: "
                                               \o fl.result.error]]]
    /\ UNCHANGED <<phase, idx, agents, environ, dotenv, sdk, attempts, last>>

\* the response has been sent
ChatClose ==
    /\ \E slot \in Slots :
          /\ inflight[slot].pc = "done"
          /\ inflight' = [inflight EXCEPT ![slot] = [pc |-> "idle"]]
    /\ UNCHANGED <<phase, idx, agents, environ, dotenv, sdk, attempts, last>>

NextConc ==
    \/ StartupBegin
    \/ StartupStep
    \/ StartupEnd
    \/ ChatReceive
    \/ ChatLookup
    \/ ChatAwait
    \/ ChatReturn
    \/ ChatClose

SpecConc == InitConc /\ [][NextConc]_vars

\* ---------------------------------------------------------------------
\* Properties
\* ---------------------------------------------------------------------

AttemptedTags == [i \in 1..Len(attempts) |-> attempts[i][1]]

InitializedTags ==
    LET ok == SelectSeq(attempts, LAMBDA a : a[2] = "initialized")
    IN  [i \in 1..Len(ok) |-> ok[i][1]]

\* C1: startup attempts every registry tag in order, leaves out of the
\* runtime agents exactly the tags whose construction or initialize
\* failed, and always reaches Ready, also with no agent initialized.
C1_StartupCompletes ==
    /\ [](phase = "Ready" =>
             /\ AttemptedTags = Keys(AVAILABLE_AGENTS)
             /\ Keys(agents) = InitializedTags)
    /\ <>(phase = "Ready")

C1_Witness ==
    /\ phase = "Ready"
    /\ Len(agents) = 0
    /\ Len(attempts) = Len(AVAILABLE_AGENTS)
    /\ \A i \in 1..Len(attempts) : attempts[i][2] # "initialized"

\* C2: in every state every runtime tag is a registry key, and a tag is
\* a runtime tag only if startup saw its initialize call return.
C2_RuntimeWithinRegistry ==
    \A tag \in KeySet(agents) :
        /\ tag \in KeySet(AVAILABLE_AGENTS)
        /\ \E i \in 1..Len(attempts) : attempts[i] = <<tag, "initialized">>

C2_Witness ==
    /\ last.op = "chat"
    /\ Keys(agents) = <<"echo">>
    /\ attempts[2] = <<"vertex", "initialize_failed">>

\* what Python prints for the list of runtime tags
TagListText(tags) ==
    CASE tags = <<>> -> "[]"
      [] tags = <<"echo">> -> "['echo']"
      [] tags = <<"vertex">> -> "['vertex']"
      [] tags = <<"echo", "vertex">> -> "['echo', 'vertex']"
      [] OTHER -> "?"

\* C3: a chat request for a type outside the runtime agents is answered
\* 400 (never 500), its detail lists exactly the runtime tags, and no
\* agent's process_message is invoked.
C3_UnavailableIs400 ==
    (last.op = "chat" /\ ~HasKey(agents, last.request.agent_type)) =>
        /\ last.status = 400
        /\ last.body.detail =
              "Agent type '" \o last.request.agent_type
              \o "' not available. Available types: "
              \o TagListText(Keys(agents))
        /\ last.invoked = <<>>

C3_Witness ==
    /\ last.op = "chat"
    /\ last.request.agent_type = "vertex"
    /\ Keys(agents) = <<"echo">>
    /\ \E i \in 1..Len(attempts) : attempts[i] = <<"vertex", "initialize_failed">>
    /\ last.status = 400

\* C4: a chat request for a runtime type is answered 200 with the string
\* the selected agent's process_message returned, the selected agent's
\* name and the requested type; echo answers "hi" with "Echo: hi".
C4_ChatAnswers ==
    (last.op = "chat" /\ HasKey(agents, last.request.agent_type)) =>
        LET agent == Get(agents, last.request.agent_type)
        IN  /\ last.status = 200
            /\ last.invoked = <<last.request.agent_type>>
            /\ last.body.response =
                  ProcessMessage(agent, last.request.message,
                                 last.request.context, sdk, last.remote).value
            /\ last.body.agent_name = agent.name
            /\ last.body.agent_name = "server-" \o last.request.agent_type
            /\ last.body.agent_type = last.request.agent_type
            /\ (/\ last.request.agent_type = "echo"
                /\ last.request.message = "hi"
                /\ ~last.request.context.present)
               => last.body.response = "Echo: hi"

C4_Witness ==
    /\ last.op = "chat"
    /\ last.request = [message |-> "hi", context |-> NoContext, agent_type |-> "echo"]
    /\ Len(agents) = 2
    /\ last.status = 200
    /\ last.body = [response |-> "Echo: hi", agent_name |-> "server-echo",
                    agent_type |-> "echo"]

\* C6: GET /health never ends in a top-level error: it answers 200 with
\* one entry per runtime agent, each the agent's own health payload (or
\* the error entry of an agent whose health_check threw).
C6_HealthNeverFails ==
    last.op = "health" =>
        /\ last.status = 200
        /\ Len(last.body.agents) = Len(agents)
        /\ \A i \in 1..Len(agents) :
              last.body.agents[i] =
                 <<agents[i][1],
                   [status |-> "healthy", name |-> agents[i][2].name,
                    description |-> agents[i][2].description]>>

\* C7: when the remote text-generation call fails, the vertex agent
\* returns "Error processing message: " + cause, and the chat request
\* routed to it is answered 200 with that string, not 500.
C7_RemoteFailureIs200 ==
    (/\ last.op = "chat"
     /\ last.request.agent_type = "vertex"
     /\ HasKey(agents, "vertex")
     /\ ~last.remote.ok) =>
        /\ last.status = 200
        /\ last.body.response = "Error processing message: " \o last.remote.cause

C7_Witness ==
    /\ last.op = "chat"
    /\ last.request.agent_type = "vertex"
    /\ HasKey(agents, "vertex")
    /\ Get(agents, "vertex").cls = "VertexAIAgent"
    /\ ~last.remote.ok
    /\ last.status = 200
    /\ last.body.response = "Error processing message: quota exceeded"

\* what Python prints for the modelled context mappings
ContextText(items) ==
    CASE items = SubSeq(AllItems, 1, 1) -> "{'user': 'test_user'}"
      [] items = SubSeq(AllItems, 1, 2) ->
            "{'user': 'test_user', 'session': '12345'}"
      [] items = SubSeq(AllItems, 1, 3) ->
            "{'user': 'test_user', 'session': '12345', 'lang': 'en'}"
      [] OTHER -> "?"

\* C8: EchoAgent.process_message never fails; it returns "Echo: " + m
\* when the context is None or empty, and "Echo: " + m followed by
\* " (Context: <rendering of c>)" for a non-empty context c.
C8_EchoReturns ==
    last.op = "EchoAgent.process_message" =>
        /\ last.result.ok
        /\ last.result.value =
              IF ~last.context.present \/ Len(last.context.items) = 0
              THEN "Echo: " \o last.message
              ELSE "Echo: " \o last.message \o " (Context: "
                   \o ContextText(last.context.items) \o ")"

C8_Witness ==
    /\ last.op = "EchoAgent.process_message"
    /\ last.message = "hi"
    /\ last.context.present
    /\ Len(last.context.items) = 1
    /\ last.result.value = "Echo: hi (Context: {'user': 'test_user'})"

\* environment strings of the model that are no integer / no boolean
NotAnInt == {"abc"}

NotABool == {"maybe"}

C10_ListAgents ==
    last.op = "agents" =>
        /\ last.status = 200
        /\ last.body.available_agents = <<"echo", "vertex">>
        /\ last.body.initialized_agents = Keys(agents)
        /\ Len(last.body.agent_details) = Len(agents)
        /\ \A i \in 1..Len(agents) :
              last.body.agent_details[i] =
                 <<agents[i][1],
                   [name |-> "server-" \o agents[i][1],
                    description |-> agents[i][2].description]>>
        /\ \A i \in 1..Len(last.body.initialized_agents) :
              \E j \in 1..Len(last.body.available_agents) :
                 last.body.initialized_agents[i] = last.body.available_agents[j]

C10_Witness ==
    /\ last.op = "agents"
    /\ last.body.initialized_agents = <<"echo">>
    /\ last.body.agent_details =
          <<<<"echo", [name |-> "server-echo", description |-> "custom"]>>>>

\* C11 as stated: health_check returns status "healthy" with the name and
\* description passed to the constructor, or the configured ones for an
\* argument that was not passed (None), and leaves the agent as it was.
C11_HealthPayloadAsGiven ==
    (last.op = "EchoAgent.health_check" /\ last.constructed) =>
        /\ last.result.status = "healthy"
        /\ last.result.name =
              IF last.name # None THEN last.name
              ELSE last.configured["agent_name"]
        /\ last.result.description =
              IF last.description # None THEN last.description
              ELSE last.configured["agent_description"]
        /\ last.after = last.agent

\* C11 amended: health_check returns status "healthy" with the name and
\* description passed to the constructor when they are non-empty, and the
\* configured ones for an argument that is None or the empty string; it
\* leaves the agent as it was.
C11_HealthPayload ==
    (last.op = "EchoAgent.health_check" /\ last.constructed) =>
        /\ DOMAIN last.result = {"status", "name", "description"}
        /\ last.result.status = "healthy"
        /\ last.result.name =
              IF last.name \notin {None, ""} THEN last.name
              ELSE last.configured["agent_name"]
        /\ last.result.description =
              IF last.description \notin {None, ""} THEN last.description
              ELSE last.configured["agent_description"]
        /\ last.after = last.agent

C11_Witness ==
    /\ last.op = "EchoAgent.health_check"
    /\ last.constructed
    /\ last.name = "test-agent"
    /\ last.description = ""
    /\ last.result = [status |-> "healthy", name |-> "test-agent",
                      description |-> "custom"]

\* C12: the server goes Uninitialized -> Starting -> Ready and nowhere
\* else, Ready is never left, startup handles each registry tag at most
\* once, and a request is served only in Ready.
C12_Lifecycle ==
    /\ [](phase \in {"Uninitialized", "Starting", "Ready"})
    /\ [](\A i, j \in 1..Len(attempts) :
             attempts[i][1] = attempts[j][1] => i = j)
    /\ [][/\ phase' # phase =>
                \/ phase = "Uninitialized" /\ phase' = "Starting"
                \/ phase = "Starting" /\ phase' = "Ready"
          /\ last' # last => phase = "Ready" /\ phase' = "Ready"]_vars

C12_Witness ==
    /\ phase = "Ready"
    /\ last.op = "root"
    /\ last.status = 200
    /\ Len(attempts) = Len(AVAILABLE_AGENTS)

\* C13: once the server is Ready no request changes the runtime agents:
\* the tags, their order and the agent bound to each tag stay as startup
\* left them (the registry AVAILABLE_AGENTS is never assigned).
C13_AgentsFrozen ==
    [][phase = "Ready" => /\ Keys(agents') = Keys(agents)
                          /\ agents' = agents]_vars

C13_Witness ==
    /\ phase = "Ready"
    /\ last.op = "health"
    /\ last.status = 500
    /\ Keys(agents) = <<"echo", "vertex">>

\* the response the request of a finished slot gets when it is the only
\* request: the chat handler run in one piece
AloneResponse(fl) ==
    ChatHandler(agents, fl.request, sdk,
                IF fl.status = 400 THEN CHOOSE r \in RemoteOutcomes : TRUE
                ELSE fl.remote)

\* C14: with chat requests interleaved at the await, every finished
\* request has the status and body it gets when handled alone, which
\* its own message, context and agent_type (and, for the vertex agent,
\* the outcome of its own remote call) determine.
C14_ConcurrentChatIsolated ==
    \A slot \in Slots :
        inflight[slot].pc = "done" =>
            /\ inflight[slot].status = AloneResponse(inflight[slot]).status
            /\ inflight[slot].body = AloneResponse(inflight[slot]).body

C14_Witness ==
    /\ MaxInflight >= 2
    /\ inflight[1].pc = "done" /\ inflight[2].pc = "done"
    /\ inflight[1].request.agent_type = "echo"
    /\ inflight[2].request.agent_type = "echo"
    /\ inflight[1].request.message = "hi"
    /\ inflight[2].request.message = ""
    /\ inflight[1].body.response = "Echo: hi"
    /\ inflight[2].body.response = "Echo: "
====
